---- MODULE Spec2Model ----
(***************************************************************************)
(* A model of metro's HMR serializer,                                      *)
(* packages/metro/src/DeltaBundler/Serializers/hmrJSBundle.js:             *)
(* hmrJSBundle, generateModules, _prepareModule and the recursive          *)
(* _getInverseDependencies, the last one step by step with its call stack. *)
(***************************************************************************)
EXTENDS Integers, Sequences, FiniteSets, TLC

(* ------------------------------ bounds --------------------------------- *)

\* Most inverse-dependency edges of a graph given to a lone resolution.
MaxResolveEdges == 4

\* Most inverse-dependency edges of a graph given to hmrJSBundle.
MaxBundleEdges == 1

\* Most entries of a delta (added + modified + deleted).
MaxDelta == 2

\* Depth of the engine's call stack, counted in _getInverseDependencies frames.
StackLimit == 5

(* ------------------------------ paths ---------------------------------- *)

\* A path is kept in the parts that the path library cuts it into.
MkPath(dir, name, ext) == [dir |-> dir, name |-> name, ext |-> ext]

pA == MkPath(<<"root">>, "a", ".js")            \* /root/a.js
pB == MkPath(<<"root">>, "b", ".js")            \* /root/b.js
pC == MkPath(<<"root", "img">>, "c", ".png")    \* /root/img/c.png
pD == MkPath(<<>>, "d", ".js")                  \* /d.js

Paths == {pA, pB, pC, pD}

BundlePaths == {pA, pB, pC}

\* Module records: the path and the type of the transformed output.
MkModule(p, type) == [path |-> p, type |-> type]

Modules == {MkModule(pA, "js/module"), MkModule(pB, "js/script"), MkModule(pC, "asset")}

(* ------------------------- input enumeration --------------------------- *)

RECURSIVE DistinctSeqs(_, _)
\* The sequences of at most n distinct elements of S: a Set in enumeration order.
DistinctSeqs(S, n) ==
  IF n = 0 \/ S = {} THEN {<<>>}
  ELSE {<<>>} \cup UNION {{<<x>> \o s : s \in DistinctSeqs(S \ {x}, n - 1)} : x \in S}

RECURSIVE GraphsOn(_, _, _)
\* The graphs whose keys are exactly the paths of S, with inverse dependencies
\* drawn from P and at most e edges in all.
GraphsOn(S, P, e) ==
  IF S = {} THEN {<<>>}
  ELSE LET p == CHOOSE q \in S : TRUE
       IN UNION {{(p :> l) @@ g : g \in GraphsOn(S \ {p}, P, e - Len(l))}
                 : l \in DistinctSeqs(P, e)}

\* graph.dependencies: the present paths, each with its module's inverseDependencies.
Graphs(P, e) == UNION {GraphsOn(S, P, e) : S \in SUBSET P}

Disjoint(s, t) == \A i \in 1..Len(s) : \A j \in 1..Len(t) : s[i] # t[j]

PathsOf(ms) == [i \in 1..Len(ms) |-> ms[i].path]

Deltas ==
  {d \in [added : DistinctSeqs(Modules, MaxDelta),
          modified : DistinctSeqs(Modules, MaxDelta),
          deleted : DistinctSeqs(BundlePaths, MaxDelta)] :
     /\ Len(d.added) + Len(d.modified) + Len(d.deleted) <= MaxDelta
     /\ Disjoint(PathsOf(d.added), PathsOf(d.modified))
     /\ Disjoint(PathsOf(d.added), d.deleted)
     /\ Disjoint(PathsOf(d.modified), d.deleted)}

\* createModuleId: deterministic, one number per path.
IdFunctions ==
  {(pA :> 1) @@ (pB :> 2) @@ (pC :> 3) @@ (pD :> 4),
   (pA :> 7) @@ (pB :> 5) @@ (pC :> 0) @@ (pD :> 6)}

EmptyDelta == [added |-> <<>>, modified |-> <<>>, deleted |-> <<>>]

(* ------------------------------ state ---------------------------------- *)

VARIABLES
  graph,                \* graph.dependencies: path -> inverseDependencies
  delta,                \* [added, modified, deleted]
  options,              \* [clientUrl, createModuleId, projectRoot]
  pc,                   \* where the program is
  coll,                 \* the collection generateModules runs over
  idx,                  \* position of its for loop
  modules,              \* its accumulators
  sourceMappingURLs,
  sourceURLs,
  added,                \* what generateModules returned for delta.added
  path,                 \* the start path of the running resolution
  stack,                \* frames of _getInverseDependencies inside their loop
  inverseDependencies,  \* the accumulator handed through the recursion
  visits,               \* per path: graph lookups, entries created, loops begun
  returned,             \* the last two payloads hmrJSBundle returned
  pre                   \* graph, delta and options as hmrJSBundle was called with

vars == <<graph, delta, options, pc, coll, idx, modules, sourceMappingURLs,
          sourceURLs, added, path, stack, inverseDependencies, visits,
          returned, pre>>

inputVars == <<graph, delta>>
loopVars == <<coll, idx, modules, sourceMappingURLs, sourceURLs, added>>
resolverVars == <<path, stack, inverseDependencies, visits>>

\* What the caller can see of its arguments.
Snapshot == [graph |-> graph, delta |-> delta, options |-> options]

NoVisits == [lookup |-> [p \in Paths |-> 0],
             entry |-> [p \in Paths |-> 0],
             loop |-> [p \in Paths |-> 0]]

NoResult == [modules |-> <<>>, sourceMappingURLs |-> <<>>, sourceURLs |-> <<>>]

EntryURL ==
  [protocol |-> "http:", host |-> "localhost:8081",
   pathname |-> MkPath(<<>>, "index", ".bundle"), search |-> "?platform=ios"]

(* ----------------------- collaborators' helpers ------------------------ *)

\* helpers/js isJsModule: the module has an output whose type starts with "js/".
isJsModule(module) == module.type \in {"js/module", "js/script"}

\* helpers/js wrapModule: the module's code inside its registration call.
wrapModule(module, opts) ==
  [path |-> module.path, id |-> opts.createModuleId[module.path], dev |-> opts.dev]

\* lib/addParamsToDefineCall: the registration call with one more parameter.
addParamsToDefineCall(code, param) == [define |-> code, inverseDependencies |-> param]

\* helpers/getSourceMapInfo: the module's mappings, path and source.
getSourceMapInfo(module, excludeSource) ==
  [path |-> module.path, source |-> IF excludeSource THEN "" ELSE "source"]

\* fromRawMappings([mapInfo]).toString rendered by getInlineSourceMappingURL.
getInlineSourceMappingURL(mapInfo) == <<"data:application/json;base64", mapInfo>>

\* path.relative on directories: up out of `from` to the common prefix, down into `to`.
RelativeDir(from, to) ==
  LET common == {n \in 0..Len(from) :
                   n <= Len(to) /\ \A i \in 1..n : from[i] = to[i]}
      c == CHOOSE n \in common : \A m \in common : m <= n
  IN [i \in 1..(Len(from) - c) |-> ".."] \o SubSeq(to, c + 1, Len(to))

\* url.format: the URL's parts in a row.
format(urlObject) ==
  <<urlObject.protocol, "//", urlObject.host, "/", urlObject.pathname.dir,
    urlObject.pathname.name, urlObject.pathname.ext, urlObject.search>>

(* --------------------- _getInverseDependencies ------------------------- *)

Top == stack[Len(stack)]

Pop(stk) == SubSeq(stk, 1, Len(stk) - 1)

Bump(vis, field, p) == [vis EXCEPT ![field][p] = @ + 1]

\* Call without the "already traversed" test.
Call_noTraversedCheck(p, inv, stk, vis) ==
  IF Len(stk) >= StackLimit
  THEN [inverseDependencies |-> inv, stack |-> stk, visits |-> vis, pc |-> "RangeError"]
  ELSE IF p \notin DOMAIN graph
  THEN [inverseDependencies |-> inv, stack |-> stk,
        visits |-> Bump(vis, "lookup", p), pc |-> "resolve"]
  ELSE [inverseDependencies |-> (p :> <<>>) @@ inv,
        stack |-> Append(stk, [path |-> p, next |-> 1]),
        visits |-> Bump(Bump(Bump(vis, "lookup", p), "entry", p), "loop", p),
        pc |-> "resolve"]

\* Call that takes a path for traversed only once its entry holds something.
Call_emptyEntryUntraversed(p, inv, stk, vis) ==
  IF Len(stk) >= StackLimit
  THEN [inverseDependencies |-> inv, stack |-> stk, visits |-> vis, pc |-> "RangeError"]
  ELSE IF p \in DOMAIN inv /\ inv[p] # <<>>
  THEN [inverseDependencies |-> inv, stack |-> stk, visits |-> vis, pc |-> "resolve"]
  ELSE IF p \notin DOMAIN graph
  THEN [inverseDependencies |-> inv, stack |-> stk,
        visits |-> Bump(vis, "lookup", p), pc |-> "resolve"]
  ELSE [inverseDependencies |-> (p :> <<>>) @@ inv,
        stack |-> Append(stk, [path |-> p, next |-> 1]),
        visits |-> Bump(Bump(Bump(vis, "lookup", p), "entry", p), "loop", p),
        pc |-> "resolve"]

\* Call without the test for a module missing from the graph: reading
\* inverseDependencies of undefined throws.
Call_throwOnAbsent(p, inv, stk, vis) ==
  IF Len(stk) >= StackLimit
  THEN [inverseDependencies |-> inv, stack |-> stk, visits |-> vis, pc |-> "RangeError"]
  ELSE IF p \in DOMAIN inv
  THEN [inverseDependencies |-> inv, stack |-> stk, visits |-> vis, pc |-> "resolve"]
  ELSE IF p \notin DOMAIN graph
  THEN [inverseDependencies |-> (p :> <<>>) @@ inv, stack |-> stk,
        visits |-> Bump(vis, "lookup", p), pc |-> "TypeError"]
  ELSE [inverseDependencies |-> (p :> <<>>) @@ inv,
        stack |-> Append(stk, [path |-> p, next |-> 1]),
        visits |-> Bump(Bump(Bump(vis, "lookup", p), "entry", p), "loop", p),
        pc |-> "resolve"]

\* What one call of _getInverseDependencies(p, graph, inv) does up to the point
\* where it returns at once or stands before its for loop: stk holds the frames
\* of the callers.
Call(p, inv, stk, vis) ==
  IF Len(stk) >= StackLimit
  THEN [inverseDependencies |-> inv, stack |-> stk, visits |-> vis, pc |-> "RangeError"]
  ELSE IF p \in DOMAIN inv
  THEN [inverseDependencies |-> inv, stack |-> stk, visits |-> vis, pc |-> "resolve"]
  ELSE IF p \notin DOMAIN graph
  THEN [inverseDependencies |-> inv, stack |-> stk,
        visits |-> Bump(vis, "lookup", p), pc |-> "resolve"]
  ELSE [inverseDependencies |-> (p :> <<>>) @@ inv,
        stack |-> Append(stk, [path |-> p, next |-> 1]),
        visits |-> Bump(Bump(Bump(vis, "lookup", p), "entry", p), "loop", p),
        pc |-> "resolve"]

Enter(r) ==
  /\ inverseDependencies' = r.inverseDependencies
  /\ stack' = r.stack
  /\ visits' = r.visits
  /\ pc' = r.pc

\* The top-level call with an accumulator that outlives the call.
getInverseDependencies_call_shared ==
  /\ pc = "call"
  /\ inverseDependencies' = Call(path, inverseDependencies, <<>>, NoVisits).inverseDependencies
  /\ stack' = Call(path, inverseDependencies, <<>>, NoVisits).stack
  /\ visits' = Call(path, inverseDependencies, <<>>, NoVisits).visits
  /\ pc' = Call(path, inverseDependencies, <<>>, NoVisits).pc
  /\ UNCHANGED <<inputVars, options, loopVars, path, returned, pre>>

\* The top-level call _getInverseDependencies(path, graph): the accumulator
\* defaults to a new empty object.
getInverseDependencies_call ==
  /\ pc = "call"
  /\ Enter(Call(path, <<>>, <<>>, NoVisits))
  /\ UNCHANGED <<inputVars, options, loopVars, path, returned, pre>>

\* One turn of the for loop: push the inverse dependency, then the recursive call.
getInverseDependencies_iterate ==
  /\ pc = "resolve"
  /\ stack # <<>>
  /\ Top.next <= Len(graph[Top.path])
  /\ LET inverse == graph[Top.path][Top.next]
         pushed == [inverseDependencies EXCEPT ![Top.path] = Append(@, inverse)]
         stepped == [stack EXCEPT ![Len(stack)].next = @ + 1]
     IN Enter(Call(inverse, pushed, stepped, visits))
  /\ UNCHANGED <<inputVars, options, loopVars, path, returned, pre>>

\* The for loop is over: return inverseDependencies to the caller.
getInverseDependencies_return ==
  /\ pc = "resolve"
  /\ stack # <<>>
  /\ Top.next > Len(graph[Top.path])
  /\ stack' = Pop(stack)
  /\ UNCHANGED <<inputVars, options, loopVars, path, inverseDependencies,
                 visits, pc, returned, pre>>

\* The outermost call has returned.
Resolved == pc = "resolve" /\ stack = <<>>

\* A lone resolution _getInverseDependencies(pA, graph). The graphs are all those
\* on the four paths within the edge bound, pA present or absent, so that every
\* start path is covered up to the naming of the paths.
InitResolve ==
  /\ graph \in Graphs(Paths, MaxResolveEdges)
  /\ path = pA
  /\ delta = EmptyDelta
  /\ options = [clientUrl |-> EntryURL,
                createModuleId |-> CHOOSE f \in IdFunctions : f[pA] = 1,
                projectRoot |-> <<"root">>]
  /\ pc = "call"
  /\ coll = "none"
  /\ idx = 1
  /\ modules = <<>>
  /\ sourceMappingURLs = <<>>
  /\ sourceURLs = <<>>
  /\ added = NoResult
  /\ stack = <<>>
  /\ inverseDependencies = <<>>
  /\ visits = NoVisits
  /\ returned = <<>>
  /\ pre = Snapshot

NextResolve ==
  \/ getInverseDependencies_call
  \/ getInverseDependencies_iterate
  \/ getInverseDependencies_return

SpecResolve == InitResolve /\ [][NextResolve]_vars

\* The engine runs a started call to its end.
FairSpecResolve == SpecResolve /\ WF_vars(NextResolve)


(* --------------------------- _prepareModule ---------------------------- *)

\* The translation that leaves out the paths with no inverse dependency.
InverseDependenciesById_dropEmpty(inv, createModuleId) ==
  [id \in {createModuleId[p] : p \in {q \in DOMAIN inv : inv[q] # <<>>}} |->
     LET p == CHOOSE q \in DOMAIN inv : createModuleId[q] = id
     IN [k \in 1..Len(inv[p]) |-> createModuleId[inv[p][k]]]]

\* The inverse dependency paths turned into ids, keys and values alike.
InverseDependenciesById(inv, createModuleId) ==
  [id \in {createModuleId[p] : p \in DOMAIN inv} |->
     LET p == CHOOSE q \in DOMAIN inv : createModuleId[q] = id
     IN [k \in 1..Len(inv[p]) |-> createModuleId[inv[p][k]]]]

\* What _prepareModule returns once the resolution has returned inv.
PreparedCode(module, inv, opts) ==
  addParamsToDefineCall(
    wrapModule(module, [createModuleId |-> opts.createModuleId, dev |-> TRUE]),
    InverseDependenciesById(inv, opts.createModuleId))

(* --------------------------- generateModules --------------------------- *)

Source == IF coll = "added" THEN delta.added ELSE delta.modified

\* The pathname that keeps the module's extension.
BundlePathname_keepExt(mapInfo, projectRoot) ==
  MkPath(RelativeDir(projectRoot, mapInfo.path.dir), mapInfo.path.name, mapInfo.path.ext)

\* The pathname of the module's bundle URL.
BundlePathname(mapInfo, projectRoot) ==
  MkPath(RelativeDir(projectRoot, mapInfo.path.dir), mapInfo.path.name, ".bundle")

\* The loop body that puts the source-map URL at the front of its array.
LoopBody_unshiftMaps(module, code, acc, opts) ==
  LET mapInfo == getSourceMapInfo(module, FALSE)
      clientUrl == [opts.clientUrl EXCEPT
                      !.pathname = MkPath(RelativeDir(opts.projectRoot, mapInfo.path.dir),
                                          mapInfo.path.name, ".bundle")]
  IN [sourceMappingURLs |-> <<getInlineSourceMappingURL(mapInfo)>> \o acc.sourceMappingURLs,
      sourceURLs |-> Append(acc.sourceURLs, format(clientUrl)),
      modules |-> Append(acc.modules, <<opts.createModuleId[module.path], code>>),
      options |-> [opts EXCEPT !.clientUrl = clientUrl]]

\* The loop body that puts all three entries at the front of their arrays.
LoopBody_unshiftAll(module, code, acc, opts) ==
  LET mapInfo == getSourceMapInfo(module, FALSE)
      clientUrl == [opts.clientUrl EXCEPT
                      !.pathname = MkPath(RelativeDir(opts.projectRoot, mapInfo.path.dir),
                                          mapInfo.path.name, ".bundle")]
  IN [sourceMappingURLs |-> <<getInlineSourceMappingURL(mapInfo)>> \o acc.sourceMappingURLs,
      sourceURLs |-> <<format(clientUrl)>> \o acc.sourceURLs,
      modules |-> <<<<opts.createModuleId[module.path], code>>>> \o acc.modules,
      options |-> [opts EXCEPT !.clientUrl = clientUrl]]

\* The loop body that formats the client URL before it writes the pathname.
LoopBody_staleUrl(module, code, acc, opts) ==
  LET mapInfo == getSourceMapInfo(module, FALSE)
      clientUrl == [opts.clientUrl EXCEPT
                      !.pathname = MkPath(RelativeDir(opts.projectRoot, mapInfo.path.dir),
                                          mapInfo.path.name, ".bundle")]
  IN [sourceMappingURLs |-> Append(acc.sourceMappingURLs,
                                   getInlineSourceMappingURL(mapInfo)),
      sourceURLs |-> Append(acc.sourceURLs, format(opts.clientUrl)),
      modules |-> Append(acc.modules, <<opts.createModuleId[module.path], code>>),
      options |-> [opts EXCEPT !.clientUrl = clientUrl]]

\* The loop body after _prepareModule: the three pushes and the write to
\* options.clientUrl.pathname, on the accumulators acc.
LoopBody(module, code, acc, opts) ==
  LET mapInfo == getSourceMapInfo(module, FALSE)
      clientUrl == [opts.clientUrl EXCEPT
                      !.pathname = BundlePathname(mapInfo, opts.projectRoot)]
  IN [sourceMappingURLs |-> Append(acc.sourceMappingURLs,
                                   getInlineSourceMappingURL(mapInfo)),
      sourceURLs |-> Append(acc.sourceURLs, format(clientUrl)),
      modules |-> Append(acc.modules, <<opts.createModuleId[module.path], code>>),
      options |-> [opts EXCEPT !.clientUrl = clientUrl]]

Accumulators ==
  [modules |-> modules, sourceMappingURLs |-> sourceMappingURLs, sourceURLs |-> sourceURLs]

\* hmrJSBundle is called: generateModules starts on delta.added.
hmrJSBundle_call ==
  /\ pc = "idle"
  /\ pc' = "generate"
  /\ coll' = "added"
  /\ idx' = 1
  /\ modules' = <<>>
  /\ sourceMappingURLs' = <<>>
  /\ sourceURLs' = <<>>
  /\ added' = NoResult
  /\ pre' = Snapshot
  /\ UNCHANGED <<inputVars, options, resolverVars, returned>>

\* The for loop meets a module that is no JS module.
generateModules_skip ==
  /\ pc = "generate"
  /\ idx <= Len(Source)
  /\ ~isJsModule(Source[idx])
  /\ idx' = idx + 1
  /\ UNCHANGED <<inputVars, options, pc, coll, modules, sourceMappingURLs,
                 sourceURLs, added, resolverVars, returned, pre>>

\* The for loop meets a JS module: _prepareModule wraps it and calls
\* _getInverseDependencies(module.path, graph).
prepareModule_call ==
  /\ pc = "generate"
  /\ idx <= Len(Source)
  /\ isJsModule(Source[idx])
  /\ path' = Source[idx].path
  /\ pc' = "call"
  /\ UNCHANGED <<inputVars, options, loopVars, stack, inverseDependencies,
                 visits, returned, pre>>

\* The resolution has returned: the rest of _prepareModule and of the loop body.
generateModules_push ==
  /\ Resolved
  /\ coll # "none"
  /\ LET module == Source[idx]
         code == PreparedCode(module, inverseDependencies, options)
         r == LoopBody(module, code, Accumulators, options)
     IN /\ modules' = r.modules
        /\ sourceMappingURLs' = r.sourceMappingURLs
        /\ sourceURLs' = r.sourceURLs
        /\ options' = r.options
  /\ idx' = idx + 1
  /\ pc' = "generate"
  /\ UNCHANGED <<inputVars, coll, added, resolverVars, returned, pre>>

\* generateModules(delta.added.values(), ...) returns; the second call starts.
generateModules_return ==
  /\ pc = "generate"
  /\ coll = "added"
  /\ idx > Len(Source)
  /\ added' = Accumulators
  /\ coll' = "modified"
  /\ idx' = 1
  /\ modules' = <<>>
  /\ sourceMappingURLs' = <<>>
  /\ sourceURLs' = <<>>
  /\ UNCHANGED <<inputVars, options, pc, resolverVars, returned, pre>>

(* ----------------------------- hmrJSBundle ----------------------------- *)

\* The translation that keeps only the paths of JS files.
Deleted_jsOnly(d, opts) ==
  LET IsJs(p) == p.ext = ".js"
      js == SelectSeq(d.deleted, IsJs)
  IN [i \in 1..Len(js) |-> opts.createModuleId[js[i]]]

\* [...delta.deleted].map(path => options.createModuleId(path))
Deleted(d, opts) == [i \in 1..Len(d.deleted) |-> opts.createModuleId[d.deleted[i]]]

Payload(add, mod, d, opts) ==
  [added |-> add.modules,
   modified |-> mod.modules,
   deleted |-> Deleted(d, opts),
   addedSourceMappingURLs |-> add.sourceMappingURLs,
   addedSourceURLs |-> add.sourceURLs,
   modifiedSourceMappingURLs |-> mod.sourceMappingURLs,
   modifiedSourceURLs |-> mod.sourceURLs]

LastTwo(s) == IF Len(s) <= 2 THEN s ELSE SubSeq(s, Len(s) - 1, Len(s))

\* generateModules(delta.modified.values(), ...) returns and hmrJSBundle returns
\* the payload.
hmrJSBundle_return ==
  /\ pc = "generate"
  /\ coll = "modified"
  /\ idx > Len(Source)
  /\ returned' = LastTwo(Append(returned, Payload(added, Accumulators, delta, options)))
  /\ pc' = "idle"
  /\ coll' = "none"
  /\ idx' = 1
  /\ modules' = <<>>
  /\ sourceMappingURLs' = <<>>
  /\ sourceURLs' = <<>>
  /\ added' = NoResult
  /\ UNCHANGED <<inputVars, options, resolverVars, pre>>

Init ==
  /\ graph \in Graphs(BundlePaths, MaxBundleEdges)
  /\ delta \in Deltas
  /\ \E f \in IdFunctions :
       options = [clientUrl |-> EntryURL, createModuleId |-> f, projectRoot |-> <<"root">>]
  /\ pc = "idle"
  /\ coll = "none"
  /\ idx = 1
  /\ modules = <<>>
  /\ sourceMappingURLs = <<>>
  /\ sourceURLs = <<>>
  /\ added = NoResult
  /\ path = pA
  /\ stack = <<>>
  /\ inverseDependencies = <<>>
  /\ visits = NoVisits
  /\ returned = <<>>
  /\ pre = Snapshot

Next ==
  \/ hmrJSBundle_call
  \/ generateModules_skip
  \/ prepareModule_call
  \/ getInverseDependencies_call
  \/ getInverseDependencies_iterate
  \/ getInverseDependencies_return
  \/ generateModules_push
  \/ generateModules_return
  \/ hmrJSBundle_return

Spec == Init /\ [][Next]_vars

(* ------------------------------ claims --------------------------------- *)

Range(f) == {f[x] : x \in DOMAIN f}

RECURSIVE Closure(_, _)
Closure(g, S) ==
  LET T == S \cup {q \in DOMAIN g : \E p \in S : q \in Range(g[p])}
  IN IF T = S THEN S ELSE Closure(g, T)

\* The present paths reached from s over inverse-dependency edges of present modules.
Reachable(g, s) == Closure(g, {s} \cap DOMAIN g)

JsModules(ms) == SelectSeq(ms, isJsModule)

ExpectedURL(p) ==
  format([options.clientUrl EXCEPT
            !.pathname = MkPath(RelativeDir(options.projectRoot, p.dir), p.name, ".bundle")])

\* Record, source-map URL and source URL at each index come from one module.
Aligned(mods, maps, urls) ==
  /\ Len(mods) = Len(maps)
  /\ Len(mods) = Len(urls)
  /\ \A i \in 1..Len(mods) :
       LET p == mods[i][2].define.path
       IN /\ mods[i][1] = options.createModuleId[p]
          /\ maps[i][2].path = p
          /\ urls[i] = ExpectedURL(p)

\* C1: in every returned payload added, addedSourceMappingURLs and addedSourceURLs
\* have one length, modified and its two URL arrays have one length, and the
\* entries at each index were produced from the same module.
C1_IndexAlignment ==
  \A k \in 1..Len(returned) :
    /\ Aligned(returned[k].added, returned[k].addedSourceMappingURLs,
               returned[k].addedSourceURLs)
    /\ Aligned(returned[k].modified, returned[k].modifiedSourceMappingURLs,
               returned[k].modifiedSourceURLs)

C1_Witness ==
  /\ returned # <<>>
  /\ Len(returned[1].added) = 2
  /\ returned[1].added[1][2].define.path # returned[1].added[2][2].define.path

\* The records are those of the JS modules of ms, one each, in the order of ms.
Filtered(mods, maps, urls, ms) ==
  /\ [i \in 1..Len(mods) |-> mods[i][2].define.path] = PathsOf(JsModules(ms))
  /\ Len(maps) = Len(JsModules(ms))
  /\ Len(urls) = Len(JsModules(ms))

\* C2: a module that is no JS module contributes nothing to the payload; every JS
\* module of delta.added (delta.modified) contributes exactly one record, and
\* the records stand in the enumeration order of the collection.
C2_JsModulesInOrder ==
  \A k \in 1..Len(returned) :
    /\ Filtered(returned[k].added, returned[k].addedSourceMappingURLs,
                returned[k].addedSourceURLs, delta.added)
    /\ Filtered(returned[k].modified, returned[k].modifiedSourceMappingURLs,
                returned[k].modifiedSourceURLs, delta.modified)

C2_Witness ==
  /\ returned # <<>>
  /\ Len(delta.added) = 2
  /\ ~isJsModule(delta.added[1])
  /\ isJsModule(delta.added[2])
  /\ Len(returned[1].added) = 1
  /\ Len(returned[1].addedSourceURLs) = 1

\* C3: two calls of hmrJSBundle in a row over the same delta, graph and options
\* object return equal payloads.
C3_Determinism == Len(returned) = 2 => returned[1] = returned[2]

C3_Witness ==
  /\ Len(returned) = 2
  /\ returned[2].added # <<>>
  /\ pre.options.clientUrl # EntryURL

TwoCycle == (pA :> <<pB>>) @@ (pB :> <<pA>>)

\* C4: every resolution returns, whatever cycles the inverse dependencies hold;
\* on the cycle A <- B <- A resolution from A returns {A: [B], B: [A]}.
C4_CycleTermination ==
  /\ <>Resolved
  /\ [](Resolved /\ graph = TwoCycle /\ path = pA => inverseDependencies = TwoCycle)

C4_Witness ==
  /\ Resolved
  /\ graph = TwoCycle
  /\ path = pA
  /\ visits.lookup[pA] = 1

Diamond == (pA :> <<pB, pC>>) @@ (pB :> <<pD>>) @@ (pC :> <<pD>>) @@ (pD :> <<>>)

\* C5 as stated: within one resolution no path has its graph lookup done, its
\* entry created or its inverse dependencies enumerated more than once.
C5_VisitedOnce ==
  \A p \in Paths :
    /\ visits.lookup[p] <= 1
    /\ visits.entry[p] <= 1
    /\ visits.loop[p] <= 1

\* C5 amended: within one resolution no path has its entry created or its inverse
\* dependencies enumerated more than once, and no path present in the graph has
\* its graph lookup done more than once (a path absent from the graph is looked
\* up each time it is reached); in the diamond, resolving from A visits D once.
C5_VisitedOnceIfPresent ==
  /\ \A p \in Paths :
       /\ visits.entry[p] <= 1
       /\ visits.loop[p] <= 1
       /\ p \in DOMAIN graph => visits.lookup[p] <= 1
  /\ Resolved /\ graph = Diamond /\ path = pA =>
       visits.lookup[pD] = 1 /\ visits.entry[pD] = 1 /\ visits.loop[pD] = 1

C5_Witness ==
  /\ Resolved
  /\ graph = Diamond
  /\ path = pA
  /\ visits.entry[pD] = 1
  /\ inverseDependencies[pB] = <<pD>>
  /\ inverseDependencies[pC] = <<pD>>

C7_DeletedTranslated ==
  \A k \in 1..Len(returned) :
    /\ Len(returned[k].deleted) = Len(delta.deleted)
    /\ \A i \in 1..Len(delta.deleted) :
         returned[k].deleted[i] = options.createModuleId[delta.deleted[i]]
    /\ (delta.deleted = <<pA, pB>> /\ options.createModuleId[pA] = 1
          /\ options.createModuleId[pB] = 2) => returned[k].deleted = <<1, 2>>

C7_Witness ==
  /\ returned # <<>>
  /\ delta.deleted = <<pA, pB>>
  /\ returned[1].deleted = <<1, 2>>

Absent == Paths \ DOMAIN graph

\* C8: a path absent from the graph is a traversal boundary: nothing is raised,
\* no key is created for it and no loop runs over it; the other branches are
\* explored in full, each entry still lists the absent paths, and a start path
\* absent from the graph yields the empty map.
C8_MissingModuleBoundary ==
  /\ pc \in {"call", "resolve"}
  /\ \A p \in Absent :
       /\ p \notin DOMAIN inverseDependencies
       /\ \A i \in 1..Len(stack) : stack[i].path # p
       /\ visits.entry[p] = 0
       /\ visits.loop[p] = 0
  /\ Resolved =>
       /\ path \in Absent => inverseDependencies = <<>>
       /\ \A q \in Reachable(graph, path) :
            q \in DOMAIN inverseDependencies /\ inverseDependencies[q] = graph[q]

C8_Witness ==
  /\ Resolved
  /\ path \in DOMAIN graph
  /\ Len(graph[path]) = 2
  /\ graph[path][1] \in Absent
  /\ graph[path][2] \in DOMAIN graph \ {path}
  /\ graph[path][2] \in DOMAIN inverseDependencies
  /\ inverseDependencies[path] = graph[path]

Leaf(p) == p \in DOMAIN graph /\ graph[p] = <<>>

Records(payload) == Range(payload.added) \cup Range(payload.modified)

\* C9 as stated: a present module with no inverse dependencies resolves to
\* {path: []}, and the parameter injected into its registration call is an
\* empty mapping.
C9_LeafParamEmpty ==
  /\ Resolved /\ coll # "none" /\ Leaf(path) => inverseDependencies = (path :> <<>>)
  /\ \A k \in 1..Len(returned) : \A r \in Records(returned[k]) :
       Leaf(r[2].define.path) => DOMAIN r[2].inverseDependencies = {}

\* C9 amended: a present module with no inverse dependencies resolves to
\* {path: []}, and the parameter injected into its registration call is the
\* one-entry mapping {createModuleId(path): []}.
C9_LeafParamOneEntry ==
  /\ Resolved /\ coll # "none" /\ Leaf(path) => inverseDependencies = (path :> <<>>)
  /\ \A k \in 1..Len(returned) : \A r \in Records(returned[k]) :
       Leaf(r[2].define.path) =>
         /\ DOMAIN r[2].inverseDependencies = {options.createModuleId[r[2].define.path]}
         /\ \A id \in DOMAIN r[2].inverseDependencies : r[2].inverseDependencies[id] = <<>>

C9_Witness ==
  /\ returned # <<>>
  /\ \E r \in Records(returned[1]) :
       /\ Leaf(r[2].define.path)
       /\ DOMAIN r[2].inverseDependencies = {r[1]}

AfterReturn == pc = "idle" /\ returned # <<>>

\* C10 as stated: after a call graph, delta and options (options.clientUrl and
\* its pathname included) are as they were before it.
C10_NothingWritten == AfterReturn => Snapshot = pre

LastJsPathname ==
  LET js == JsModules(delta.added) \o JsModules(delta.modified)
      p == js[Len(js)].path
  IN IF js = <<>> THEN pre.options.clientUrl.pathname
     ELSE MkPath(RelativeDir(options.projectRoot, p.dir), p.name, ".bundle")

\* C10 amended: after a call graph, delta, options.createModuleId,
\* options.projectRoot and every part of options.clientUrl but pathname are as
\* they were before it; options.clientUrl.pathname is as before only when the
\* delta holds no JS module, and otherwise is the bundle path of the last JS
\* module processed (those of modified after those of added).
C10_OnlyPathnameWritten ==
  AfterReturn =>
    /\ graph = pre.graph
    /\ delta = pre.delta
    /\ options = [pre.options EXCEPT !.clientUrl.pathname = LastJsPathname]

C10_Witness ==
  /\ AfterReturn
  /\ JsModules(delta.added) # <<>>
  /\ pre.options.clientUrl = EntryURL
  /\ options.clientUrl.pathname # EntryURL.pathname

====
